---- MODULE Spec2Model ----
(***************************************************************************)
(* The Solar System body catalogue of src/core/modules/SolarSystem.cpp:    *)
(* loading the catalogue files (loadPlanets), the callers init() and       *)
(* reloadPlanets(), draw()'s distance sort, removePlanet() and the         *)
(* name listings.                                                          *)
(*                                                                         *)
(* A catalogue file is a sequence of records in the order in which         *)
(* QSettings::childGroups() enumerates its sections.  Numeric orbital      *)
(* elements are abstracted to the outcome of the comparisons the loader    *)
(* makes on them (given / not given).  Planet objects live in `heap`; a    *)
(* PlanetP is an index into it and NULL is the empty shared pointer.       *)
(***************************************************************************)
EXTENDS Integers, Sequences, FiniteSets, TLC

VARIABLES
    primary,            \* data/ssystem_major.ini as StelFileMgr::findFile sees it
    minors,             \* data/ssystem_minor.ini in all paths (findFileInAllPaths)
    build,              \* "debug" or "release": whether Q_ASSERT is compiled in
    pc,                 \* control point of the process
    caller,             \* who called loadPlanets(): "init" or "reload"
    ld,                 \* locals of loadPlanets(filePath): file, orderedSections, i, readOk
    heap,               \* every Planet object created so far
    systemPlanets,      \* QList<PlanetP> systemPlanets
    orbits,             \* QList<Orbit*> orbits
    nOrbits,            \* number of Orbit objects allocated so far
    deletedOrbits,      \* Orbit objects on which delete has been called
    minorBodies,        \* QStringList minorBodies
    sun, earth, moon,   \* the three aliases
    selected,           \* PlanetP selected
    shadowPlanetCount,
    flagShow,           \* flagShow (setFlagPlanets)
    last,               \* the latest step: operation, argument, result, diagnostics
    loadNo,             \* number of loadPlanets() calls started
    lastLoad,           \* result of the latest completed loadPlanets() call
    prevLoad,           \* result of the completed loadPlanets() call before that
    nOps, nReloads, nEdits,
    flagLightTravelTime,    \* flagLightTravelTime (setFlagLightTravelTime)
    lightTimeSunPosition,   \* Vec3d lightTimeSunPosition, as the expression assigned
    passes,                 \* the calls made on the bodies by the latest computePositions
    objMgrSelected,         \* the Planet selected in StelObjectMgr, or NULL
    savedSelection,         \* reloadPlanets(): its local selectedObject
    eclipse,                \* the latest getEclipseFactor call: geometry and result
    conf,                   \* the keys of config.ini that init() reads for the Moon
    rotation,               \* the rotation keys of a section and what they give
    flagMoonScale,          \* flagMoonScale (setFlagMoonScale)
    moonScale,              \* moonScale (setMoonScale)
    sphereScale             \* Planet::sphereScale of the bodies it was set on

srcVars   == <<primary, minors>>
envVars   == <<build, conf>>
catVars   == <<heap, systemPlanets, orbits, nOrbits, deletedOrbits, minorBodies,
               sun, earth, moon, selected, shadowPlanetCount>>
histVars  == <<loadNo, lastLoad, prevLoad>>
cntVars   == <<nOps, nReloads, nEdits>>
simVars   == <<flagLightTravelTime, lightTimeSunPosition, passes>>
selVars   == <<objMgrSelected, savedSelection>>
eclVars   == <<eclipse>>
rotVars   == <<rotation>>
scaleVars == <<flagMoonScale, moonScale, sphereScale>>
vars      == <<srcVars, envVars, simVars, selVars, eclVars, rotVars, scaleVars, pc, caller, ld, catVars,
               flagShow, last, histVars, cntVars>>

-----------------------------------------------------------------------------
(* Bounds of the model *)

MaxPrimaryRecords == 3      \* sections in the primary file
MaxMinorRecords   == 2      \* sections in a minor-bodies file
MaxSections       == 2      \* sections of a file in the ordering specification
MaxOps            == 2      \* draw and removePlanet calls
MaxReloads        == 1      \* reloadPlanets() calls
MaxEdits          == 1      \* changes of the catalogue files on disk

NULL == 0

-----------------------------------------------------------------------------
(* Catalogue records *)

Unset == "<unset>"          \* the key is not in the section

\* pd.value(secname+"/parent", "Sun").toString(), lines 532 and 584
ParentStr(r) == IF r.parent = Unset THEN "Sun" ELSE r.parent

\* QString::simplified() on the names of the model: strips the surrounding blanks
Simplified(s) == IF s = " Vesta " THEN "Vesta" ELSE s

\* englishName.contains("Pluto"), line 946
ContainsPluto(s) == s \in {"Pluto", "Pluto II"}

Rec(sec, name, parent, func, type) ==
    [sec |-> sec, name |-> name, parent |-> parent, func |-> func, type |-> type,
     peri |-> TRUE, sma |-> FALSE, mm |-> FALSE, period |-> FALSE,
     tp |-> TRUE, epochMA |-> FALSE, ecc1 |-> FALSE]

\* The record of section sec of a file
RecordOf(file, sec) == file[CHOOSE i \in DOMAIN file : file[i].sec = sec]

-----------------------------------------------------------------------------
(* loadPlanets(filePath), stages 1 and 2: the order of the sections *)

\* Stage 1, lines 524-539: secNameMap and parentMap after the sections 1..i
RECURSIVE Stage1(_, _)
Stage1(file, i) ==
    IF i = 0 THEN [secNameMap |-> <<>>, parentMap |-> <<>>]
    ELSE LET m          == Stage1(file, i - 1)
             secname    == file[i].sec
             englishName == file[i].name
             strParent  == ParentStr(file[i])
         IN  [secNameMap |-> (englishName :> secname) @@ m.secNameMap,
              parentMap  |-> IF strParent # "none" /\ strParent # "" /\ englishName # ""
                             THEN (englishName :> strParent) @@ m.parentMap
                             ELSE m.parentMap]

SecNameMap(file) == Stage1(file, Len(file)).secNameMap
ParentMap(file)  == Stage1(file, Len(file)).parentMap

\* The while loop of lines 549-555 never leaves a cycle of parentMap
Diverges == -1

\* Lines 549-555: follow the dependencies from p, level counted so far
RECURSIVE FollowDeps(_, _, _)
FollowDeps(parentMap, p, level) ==
    IF p \in DOMAIN parentMap /\ parentMap[p] # "none"
    THEN IF level >= Cardinality(DOMAIN parentMap)
         THEN Diverges
         ELSE FollowDeps(parentMap, parentMap[p], level + 1)
    ELSE level

Level(file, englishName) == FollowDeps(ParentMap(file), englishName, 0)

\* A list in place of the sorted map: the item goes to the end
MultiInsertUnsorted(m, key, value) == Append(m, <<key, value>>)

\* A new item goes behind the items that already have its key
MultiInsertBehind(m, key, value) ==
    LET before == {j \in DOMAIN m : m[j][1] <= key}
        n      == Cardinality(before)
    IN  SubSeq(m, 1, n) \o << <<key, value>> >> \o SubSeq(m, n + 1, Len(m))

\* QMultiMap<int,QString>::insert: the map is sorted on the key, and a new item
\* goes in front of the items that already have its key
MultiInsert(m, key, value) ==
    LET before == {j \in DOMAIN m : m[j][1] < key}
        n      == Cardinality(before)
    IN  SubSeq(m, 1, n) \o << <<key, value>> >> \o SubSeq(m, n + 1, Len(m))

\* Stage 2a, lines 542-559: depLevelMap after the sections 1..i
RECURSIVE DepLevelMap(_, _)
DepLevelMap(file, i) ==
    IF i = 0 THEN <<>>
    ELSE LET englishName == file[i].name
         IN  MultiInsert(DepLevelMap(file, i - 1),
                         Level(file, englishName),
                         SecNameMap(file)[englishName])

\* Stage 2a does not return when some walk diverges
Stage2Hangs(file) == \E i \in DOMAIN file : Level(file, file[i].name) = Diverges

\* Stage 2b, lines 563-569
OrderedSections(file) ==
    LET m == DepLevelMap(file, Len(file)) IN [j \in DOMAIN m |-> m[j][2]]

-----------------------------------------------------------------------------
(* Planet objects *)

\* Planet::isAsteroid in the order of the Planet::PlanetType enumeration
isAsteroid == 5

\* Planet::pType for the type string handed to the Planet constructor
PTypeOf(type) ==
    CASE type = "star"    -> 0
      [] type = "planet"  -> 1
      [] type = "moon"    -> 2
      [] type = "asteroid" -> 5
      [] type = "plutino" -> 6
      [] type = "comet"   -> 7
      [] type = "dwarf planet" -> 8
      [] type = "cubewano" -> 9
      [] type = "scattered disc object" -> 10
      [] type = "Oort cloud object" -> 11
      [] OTHER -> 13

\* The coord_func identifiers of lines 822-926
SpecialFuncs ==
    {"sun_special", "mercury_special", "venus_special", "earth_special",
     "lunar_special", "mars_special", "phobos_special", "deimos_special",
     "jupiter_special", "europa_special", "calisto_special", "io_special",
     "ganymede_special", "saturn_special", "mimas_special", "enceladus_special",
     "tethys_special", "dione_special", "rhea_special", "titan_special",
     "iapetus_special", "hyperion_special", "uranus_special", "miranda_special",
     "ariel_special", "umbriel_special", "titania_special", "oberon_special",
     "neptune_special", "pluto_special"}

\* The type strings of line 946
MinorTypes ==
    {"asteroid", "dwarf planet", "cubewano", "plutino", "scattered disc object",
     "Oort cloud object"}

\* The class selected by the type alone
ClassOfTypeAlone(type, englishName) ==
    IF type \in MinorTypes THEN "MinorPlanet"
    ELSE IF type = "comet" THEN "Comet"
    ELSE "Planet"

\* Lines 946-1072: the class of the object built for a record
ClassOf(type, englishName) ==
    IF type \in MinorTypes /\ ~ContainsPluto(englishName) THEN "MinorPlanet"
    ELSE IF type = "comet" THEN "Comet"
    ELSE "Planet"

\* Names of the bodies of a list of PlanetP, in list order
NamesOf(h, list) == [j \in DOMAIN list |-> h[list[j]].englishName]

\* Lines 589-596, and searchByEnglishName, lines 1322-1330: the first body of
\* the list with that english name, or the empty pointer
FirstNamed(h, list, name) ==
    LET hits == {j \in DOMAIN list : h[list[j]].englishName = name}
    IN  IF hits = {} THEN NULL
        ELSE list[CHOOSE j \in hits : \A k \in hits : j <= k]

searchByEnglishName(planetEnglishName) ==
    FirstNamed(heap, systemPlanets, planetEnglishName)

\* Planet::getParent() of a body that exists
HasParent(h, p) == h[p].parent # NULL

-----------------------------------------------------------------------------
(* loadPlanets(filePath), stage 3: one section *)

\* Lines 612-628 and 716-738: no pericenter distance and no semi-major axis
NoShape(rec) == ~rec.peri /\ ~rec.sma

\* Lines 630 and 736: Q_ASSERT(eccentricity != 1.0) is reached and fails
ParabolicAssert(rec) == ~rec.peri /\ rec.sma /\ rec.ecc1

\* parent->getParent() is non-null.  On the empty pointer the read is
\* undefined: ub is what the build makes of it ("crash", or the value read,
\* "null" or "nonnull")
ParentHasParent(h, parent, ub) ==
    IF parent = NULL THEN ub = "nonnull" ELSE HasParent(h, parent)

\* Lines 745-751: the mean motion can be derived neither from the record nor
\* from the Gaussian constant (the parent is not the sun)
NoMeanMotion(rec, h, parent, ub) ==
    ~rec.mm /\ ~rec.period /\ ParentHasParent(h, parent, ub)

\* Lines 770-779: neither the time at pericenter nor epoch and mean anomaly
NoPericenterTime(rec) == ~rec.tp /\ ~rec.epochMA

\* No position function is known under the name
PosFuncNeverMissing(funcName) == FALSE

\* Lines 929-933: posfunc is still null after the chain of comparisons of
\* lines 612-926
PosFuncMissing(funcName) ==
    funcName \notin {"ell_orbit", "comet_orbit"} \cup SpecialFuncs

\* Lines 612-933: what becomes of a record whose parent is resolved.
\*   "skip"   the record is left out (continue)
\*   "exit"   exit(-1)
\*   "abort"  a Q_ASSERT fails in a debug build
\*   "crash"  parent->getParent() on the empty pointer ends the process
\*   "orbit"  an Orbit is created, "plain" none is needed
OrbitOutcome(rec, h, parent, ub) ==
    LET deref == parent = NULL /\ ub = "crash" IN
    IF rec.func = "ell_orbit" THEN
        IF NoShape(rec) THEN "skip"
        ELSE IF ParabolicAssert(rec) /\ build = "debug" THEN "abort"
        ELSE IF deref THEN "crash"
        ELSE "orbit"
    ELSE IF rec.func = "comet_orbit" THEN
        IF NoShape(rec) THEN "skip"
        ELSE IF ParabolicAssert(rec) /\ build = "debug" THEN "abort"
        ELSE IF ~rec.mm /\ ~rec.period /\ deref THEN "crash"
        ELSE IF NoPericenterTime(rec) THEN "skip"
        ELSE IF deref THEN "crash"
        ELSE "orbit"
    ELSE IF PosFuncMissing(rec.func) THEN "exit"
    ELSE "plain"

\* The diagnostics of lines 624, 731, 749 and 775 about the orbital elements
ElementErrors(rec, h, parent, ub) ==
    LET deref == parent = NULL /\ ub = "crash" IN
    IF rec.func = "ell_orbit" THEN
        IF NoShape(rec)
        THEN {"ERROR: you must provide orbit_PericenterDistance or orbit_SemiMajorAxis"}
        ELSE {}
    ELSE IF rec.func = "comet_orbit" THEN
        IF NoShape(rec)
        THEN {"ERROR: you must provide orbit_PericenterDistance or orbit_SemiMajorAxis"}
        ELSE IF ParabolicAssert(rec) /\ build = "debug" THEN {}
        ELSE IF ~rec.mm /\ ~rec.period /\ deref THEN {}
        ELSE (IF NoMeanMotion(rec, h, parent, ub)
              THEN {"ERROR: you must provide either orbit_MeanMotion or orbit_Period"}
              ELSE {})
             \cup
             (IF NoPericenterTime(rec)
              THEN {"ERROR: you must provide both orbit_Epoch and orbit_MeanAnomaly"}
              ELSE {})
    ELSE {}

\* Lines 949, 1001 and 1054: the new Planet object
NewPlanet(rec, parent, orbitPtr) ==
    [englishName |-> Simplified(rec.name),
     type        |-> rec.type,
     pType       |-> PTypeOf(rec.type),
     class       |-> ClassOf(rec.type, Simplified(rec.name)),
     parent      |-> parent,
     satellites  |-> <<>>,
     orbitPtr    |-> orbitPtr,
     load        |-> loadNo,
     file        |-> ld.file]

-----------------------------------------------------------------------------
(* The catalogue files of the model *)

\* The records of pool whose index is in S, in pool order
RECURSIVE Pick(_, _, _)
Pick(pool, S, i) ==
    IF i > Len(pool) THEN <<>>
    ELSE (IF i \in S THEN <<pool[i]>> ELSE <<>>) \o Pick(pool, S, i + 1)

Files(pool, max) ==
    {Pick(pool, S, 1) : S \in {T \in SUBSET DOMAIN pool : Cardinality(T) <= max}}

PrimaryPool ==
    << Rec("earth", "Earth", Unset, "earth_special", "planet"),
       Rec("moon", "Moon", "Earth", "lunar_special", "moon"),
       [Rec("nix", "Nix", Unset, "ell_orbit", "moon") EXCEPT !.peri = FALSE],
       Rec("phobos2", "Phobos2", "Mars2", "ell_orbit", "moon"),
       Rec("sun", "Sun", "none", "sun_special", "star"),
       Rec("vulcan", "Vulcan", Unset, "vulcan_special", "planet") >>

MinorPool ==
    << Rec("ceres", "Ceres", Unset, "comet_orbit", "asteroid"),
       Rec("ceres_b", "Ceres", Unset, "ell_orbit", "asteroid"),
       [Rec("halley", "Halley", Unset, "comet_orbit", "comet") EXCEPT !.tp = FALSE],
       Rec("moonlet", "Moonlet", "Earth", "comet_orbit", "asteroid"),
       Rec("nemesis", "Nemesis", "Mars2", "nemesis_special", "planet"),
       Rec("rogue", "Rogue", "none", "comet_orbit", "comet"),
       Rec("mars2", "Mars2", Unset, "comet_orbit", "asteroid") >>

Source(path, status, records) ==
    [path |-> path, status |-> status, records |-> records]

\* The sources with records of the pools given
PrimarySourcesOf(pool) ==
    {Source("install", "absent", <<>>), Source("install", "parseError", <<>>)}
    \cup {Source("install", "ok", f) : f \in Files(pool, MaxPrimaryRecords)}

\* findFileInAllPaths lists the file of the user directory first
MinorSourcesOf(pool) ==
    LET good == {Source("install", "ok", f) : f \in Files(pool, MaxMinorRecords)}
        bad  == {Source(d, "parseError", <<>>) : d \in {"user", "install"}}
    IN  {<<>>} \cup {<<f>> : f \in good \cup bad}
        \cup {<<Source("user", "parseError", <<>>), f>> :
                  f \in good \cup {Source("install", "parseError", <<>>)}}

\* The files the life of the module is followed with: Earth, Moon, Phobos2 and
\* the Sun, and the two records named Ceres and the asteroid Mars2
LifePrimaryPool == Pick(PrimaryPool, {1, 2, 4, 5}, 1)
LifeMinorPool   == Pick(MinorPool, {1, 2, 7}, 1)

\* What an edit of the files between two loads leaves on disk
EditedPrimaries ==
    {Source("install", "absent", <<>>), Source("install", "parseError", <<>>),
     Source("install", "ok", <<PrimaryPool[4]>>)}
EditedMinors == {<<>>, <<Source("install", "parseError", <<>>)>>}

-----------------------------------------------------------------------------
(* State after construction, lines 64-91 *)

Step(op, name, result, msgs) ==
    [op |-> op, name |-> name, result |-> result, msgs |-> msgs]

NoLoad == [n |-> 0, src |-> <<>>, names |-> {}, parents |-> {}]

NoLoader == [file |-> 0, files |-> <<>>, src |-> <<>>, ordered |-> <<>>, i |-> 0,
             readOk |-> 0]

\* No getEclipseFactor call was made
NoEclipse == [R |-> 0, current |-> NULL, contributions |-> <<>>, result |-> 0]

\* No section was read for its rotation keys
NoRotation == [keys |-> <<>>, done |-> FALSE]

\* The values init() takes when config.ini has no key for the Moon's scale,
\* lines 155 and 158
DefaultConf == [flag_moon_scaled |-> FALSE, moon_scale |-> 4]

\* The members after the constructor, lines 64-91, with the configuration c
ConstructedWith(c) ==
    /\ build \in {"debug", "release"}
    /\ conf = c
    /\ rotation = NoRotation
    /\ flagMoonScale = FALSE
    /\ moonScale = 1
    /\ sphereScale = <<>>
    /\ pc = "new"
    /\ caller = "init"
    /\ ld = NoLoader
    /\ heap = <<>>
    /\ systemPlanets = <<>>
    /\ orbits = <<>>
    /\ nOrbits = 0
    /\ deletedOrbits = {}
    /\ minorBodies = <<>>
    /\ sun = NULL /\ earth = NULL /\ moon = NULL
    /\ selected = NULL
    /\ shadowPlanetCount = 0
    /\ flagShow = FALSE
    /\ last = Step("new", "", "", {})
    /\ loadNo = 0
    /\ lastLoad = NoLoad
    /\ prevLoad = NoLoad
    /\ nOps = 0 /\ nReloads = 0 /\ nEdits = 0
    /\ flagLightTravelTime = TRUE
    /\ lightTimeSunPosition = "unset"
    /\ passes = <<>>
    /\ objMgrSelected = NULL
    /\ savedSelection = NULL
    /\ eclipse = NoEclipse

Constructed == ConstructedWith(DefaultConf)

Init ==
    /\ primary \in PrimarySourcesOf(LifePrimaryPool)
    /\ minors \in MinorSourcesOf(LifeMinorPool)
    /\ Constructed

\* All the records of the pools
InitLoad ==
    /\ primary \in PrimarySourcesOf(PrimaryPool)
    /\ minors \in MinorSourcesOf(MinorPool)
    /\ Constructed

-----------------------------------------------------------------------------
(* Helpers on lists and on the heap *)

Range(list) == {list[j] : j \in DOMAIN list}

\* QList::removeOne: the list without the first occurrence of x
RemoveOne(list, x) ==
    LET hits == {j \in DOMAIN list : list[j] = x}
    IN  IF hits = {} THEN list
        ELSE LET k == CHOOSE j \in hits : \A m \in hits : j <= m
             IN  SubSeq(list, 1, k - 1) \o SubSeq(list, k + 1, Len(list))

\* p->satellites.clear() for the objects of S
ClearSatellites(h, S) ==
    [j \in DOMAIN h |-> IF j \in S THEN [h[j] EXCEPT !.satellites = <<>>] ELSE h[j]]

\* Lines 473-477
ShadowCount(h, list, s) ==
    Cardinality({j \in DOMAIN list :
                    h[list[j]].parent # s \/ h[list[j]].satellites # <<>>})

\* The english names and the body-to-parent relation of a catalogue
NameSet(h, list) == {h[p].englishName : p \in Range(list)}
ParentRel(h, list) ==
    {<<h[p].englishName,
       IF h[p].parent = NULL THEN "<none>" ELSE h[h[p].parent].englishName>> :
        p \in Range(list)}

\* The source read by the running loadPlanets(filePath)
CurSource == IF ld.file = 0 THEN primary ELSE ld.files[ld.file]

-----------------------------------------------------------------------------
(* init(), lines 144-149: up to the call of loadPlanets() *)

InitCall ==
    /\ pc = "new"
    /\ pc' = "loadPlanets"
    /\ caller' = "init"
    /\ last' = Step("init", "", "", {})
    /\ UNCHANGED <<srcVars, envVars, simVars, selVars, eclVars, rotVars, scaleVars, ld, catVars, flagShow, histVars, cntVars>>

-----------------------------------------------------------------------------
(* loadPlanets(), lines 404-478 *)

\* loadPlanets() returns to its caller, which goes on to computePositions
\* (lines 153 and 2200); h and list are the heap and catalogue it leaves
ReturnToCaller(n, src, h, list) ==
    /\ pc' = "computePositions"
    /\ prevLoad' = lastLoad
    /\ lastLoad' = [n |-> n, src |-> src, names |-> NameSet(h, list),
                    parents |-> ParentRel(h, list)]

\* Lines 404-415: up to the call of loadPlanets(solarSystemFile)
LoadPlanetsEnter ==
    /\ pc = "loadPlanets"
    /\ minorBodies' = <<>>
    /\ loadNo' = loadNo + 1
    /\ IF primary.status = "absent"
       THEN /\ last' = Step("loadPlanets", "", "",
                            {"ERROR while loading ssystem_major.ini (unable to find)"})
            /\ ReturnToCaller(loadNo + 1, <<primary, minors>>, heap, systemPlanets)
            /\ ld' = NoLoader
       ELSE /\ last' = Step("loadPlanets", "", "", {})
            /\ pc' = "open"
            /\ ld' = [NoLoader EXCEPT !.src = <<primary, minors>>]
            /\ UNCHANGED <<lastLoad, prevLoad>>
    /\ UNCHANGED <<srcVars, envVars, simVars, selVars, eclVars, rotVars, scaleVars, caller, heap, systemPlanets, orbits, nOrbits,
                   deletedOrbits, sun, earth, moon, selected, shadowPlanetCount,
                   flagShow, cntVars>>

\* Lines 415-478: loadPlanets() goes on after loadPlanets(filePath) returned ok,
\* having written msgs
FileReturned(ok, msgs) ==
    LET file == IF ld.file = 0 THEN "ssystem_major.ini" ELSE "ssystem_minor.ini" IN
    IF ld.file = 0 THEN
        /\ UNCHANGED <<srcVars, heap, systemPlanets, shadowPlanetCount>>
        /\ IF ~ok THEN
               /\ last' = Step("loadPlanets", file, "false",
                               msgs \cup {"ERROR while loading ssystem_major.ini"})
               /\ ReturnToCaller(loadNo, ld.src, heap, systemPlanets)
               /\ ld' = NoLoader
           ELSE IF minors = <<>> THEN
               /\ last' = Step("loadPlanets", file, "true",
                               msgs \cup {"ERROR while loading ssystem_minor.ini (unable to find)"})
               /\ ReturnToCaller(loadNo, ld.src, heap, systemPlanets)
               /\ ld' = NoLoader
           ELSE
               /\ last' = Step("loadPlanets", file, "true", msgs)
               /\ pc' = "open"
               /\ ld' = [ld EXCEPT !.file = 1, !.files = minors, !.ordered = <<>>,
                                   !.i = 0, !.readOk = 0]
               /\ UNCHANGED <<lastLoad, prevLoad>>
    ELSE IF ok THEN
        /\ last' = Step("loadPlanets", file, "true",
                        msgs \cup {"File ssystem_minor.ini is loaded successfully"})
        /\ shadowPlanetCount' = ShadowCount(heap, systemPlanets, sun)
        /\ ReturnToCaller(loadNo, ld.src, heap, systemPlanets)
        /\ ld' = NoLoader
        /\ UNCHANGED <<srcVars, heap, systemPlanets>>
    ELSE
        \* lines 443-470: the else branch of the foreach
        /\ last' = Step("loadPlanets", file, "false", msgs \cup {"Removing minor bodies"})
        /\ heap' = ClearSatellites(heap,
                       {p \in Range(systemPlanets) : heap[p].pType >= isAsteroid})
        /\ systemPlanets' = <<>>
        /\ \E renamed \in (IF CurSource.path = "user" THEN BOOLEAN ELSE {FALSE}) :
              /\ minors' = IF renamed
                           THEN SelectSeq(minors, LAMBDA f : f.path # "user")
                           ELSE minors
              /\ UNCHANGED primary
        /\ IF ld.file < Len(ld.files) THEN
               /\ pc' = "open"
               /\ ld' = [ld EXCEPT !.file = ld.file + 1, !.ordered = <<>>, !.i = 0,
                                   !.readOk = 0]
               /\ UNCHANGED <<lastLoad, prevLoad, shadowPlanetCount>>
           ELSE
               /\ shadowPlanetCount' = 0
               /\ ReturnToCaller(loadNo, ld.src, heap', systemPlanets')
               /\ ld' = NoLoader

-----------------------------------------------------------------------------
(* loadPlanets(filePath), lines 480-1152 *)

\* Lines 482-569: parse the file and order its sections
OpenFile ==
    /\ pc = "open"
    /\ IF CurSource.status = "parseError" THEN
           FileReturned(FALSE, {"ERROR while parsing"})
       ELSE IF Stage2Hangs(CurSource.records) THEN
           /\ pc' = "hung"
           /\ last' = Step("loadFile", "", "", {})
           /\ UNCHANGED <<srcVars, ld, heap, systemPlanets, shadowPlanetCount,
                          lastLoad, prevLoad>>
       ELSE
           /\ pc' = "stage3"
           /\ ld' = [ld EXCEPT !.ordered = OrderedSections(CurSource.records), !.i = 1]
           /\ last' = Step("loadFile", "", "", {})
           /\ UNCHANGED <<srcVars, heap, systemPlanets, shadowPlanetCount,
                          lastLoad, prevLoad>>
    /\ UNCHANGED <<envVars, simVars, selVars, eclVars, rotVars, scaleVars, caller, orbits, nOrbits, deletedOrbits, minorBodies,
                   sun, earth, moon, selected, flagShow, loadNo, cntVars>>

\* The file is taken as loaded whatever the catalogue holds
EndFileNoEmptyCheck ==
    /\ pc = "stage3"
    /\ ld.i > Len(ld.ordered)
    /\ FileReturned(TRUE, {})
    /\ UNCHANGED <<envVars, simVars, selVars, eclVars, rotVars, scaleVars, caller, orbits, nOrbits, deletedOrbits, minorBodies,
                   sun, earth, moon, selected, flagShow, loadNo, cntVars>>

\* Lines 1131-1151: the sections are all read
EndFile ==
    /\ pc = "stage3"
    /\ ld.i > Len(ld.ordered)
    /\ IF systemPlanets = <<>>
       THEN FileReturned(FALSE, {"No Solar System objects loaded"})
       ELSE FileReturned(TRUE, {})
    /\ UNCHANGED <<envVars, simVars, selVars, eclVars, rotVars, scaleVars, caller, orbits, nOrbits, deletedOrbits, minorBodies,
                   sun, earth, moon, selected, flagShow, loadNo, cntVars>>

\* abort() in place of continue
SkipSectionAborts(secname, msgs) ==
    /\ pc' = "aborted"
    /\ last' = Step("section", secname, "abort", msgs)
    /\ UNCHANGED ld

\* continue, lines 601, 626, 733 and 777: the loop goes on to the next section
SkipSection(secname, msgs) ==
    /\ ld' = [ld EXCEPT !.i = ld.i + 1]
    /\ last' = Step("section", secname, "skipped", msgs)
    /\ UNCHANGED pc

\* What the build can make of parent->getParent() for this record
DerefOutcomes(rec, parent) ==
    IF parent = NULL /\ rec.func \in {"ell_orbit", "comet_orbit"}
    THEN {"crash", "null", "nonnull"}
    ELSE {"null"}

\* Lines 577-1129: the section orderedSections.at(i)
LoadSection ==
    /\ pc = "stage3"
    /\ ld.i <= Len(ld.ordered)
    /\ LET secname     == ld.ordered[ld.i]
           rec         == RecordOf(CurSource.records, secname)
           englishName == Simplified(rec.name)
           strParent   == ParentStr(rec)
           parent      == IF strParent # "none"
                          THEN FirstNamed(heap, systemPlanets, strParent)
                          ELSE NULL
           p           == Len(heap) + 1
           linked      == IF parent = NULL THEN heap
                          ELSE [heap EXCEPT ![parent].satellites = Append(@, p)]
       IN  \E ub \in DerefOutcomes(rec, parent) :
           LET outcome == IF strParent # "none" /\ parent = NULL
                          THEN "noparent"
                          ELSE OrbitOutcome(rec, heap, parent, ub)
               orb     == IF outcome = "orbit" THEN nOrbits + 1 ELSE NULL
           IN
           IF outcome \in {"orbit", "plain"} THEN
               /\ heap' = Append(linked, NewPlanet(rec, parent, orb))
               /\ systemPlanets' = Append(systemPlanets, p)
               /\ orbits' = IF orb # NULL THEN Append(orbits, orb) ELSE orbits
               /\ nOrbits' = IF orb # NULL THEN orb ELSE nOrbits
               /\ minorBodies' = IF ClassOf(rec.type, englishName) \in {"MinorPlanet", "Comet"}
                                 THEN Append(minorBodies, englishName)
                                 ELSE minorBodies
               /\ earth' = IF secname = "earth" THEN p ELSE earth
               /\ sun'   = IF secname = "sun" THEN p ELSE sun
               /\ moon'  = IF secname = "moon" THEN p ELSE moon
               /\ ld' = [ld EXCEPT !.i = ld.i + 1, !.readOk = ld.readOk + 1]
               /\ last' = Step("section", secname, "created",
                               ElementErrors(rec, heap, parent, ub))
               /\ UNCHANGED pc
           ELSE
               /\ UNCHANGED <<heap, systemPlanets, orbits, nOrbits, minorBodies,
                              earth, sun, moon>>
               /\ IF outcome = "noparent" THEN
                      SkipSection(secname, {"ERROR : can't find parent solar system body"})
                  ELSE IF outcome = "skip" THEN
                      SkipSection(secname, ElementErrors(rec, heap, parent, ub))
                  ELSE IF outcome = "exit" THEN
                      /\ pc' = "exited"
                      /\ last' = Step("section", secname, "exit",
                                      {"ERROR : can't find posfunc"})
                      /\ UNCHANGED ld
                  ELSE IF outcome = "abort" THEN
                      /\ pc' = "aborted"
                      /\ last' = Step("section", secname, "abort", {})
                      /\ UNCHANGED ld
                  ELSE
                      \* parent->getParent() on the empty pointer
                      /\ pc' = "crashed"
                      /\ last' = Step("section", secname, "crash", {})
                      /\ UNCHANGED ld
    /\ UNCHANGED <<srcVars, envVars, simVars, selVars, eclVars, rotVars, scaleVars, caller, deletedOrbits, selected,
                   shadowPlanetCount, flagShow, histVars, cntVars>>

-----------------------------------------------------------------------------
(* computePositions and the rest of init() and reloadPlanets() *)

\* What the build can make of a call through the alias sun: the read through
\* the empty pointer is undefined
SunDerefOutcomes == IF sun = NULL THEN {"crash", "survive"} ELSE {"ok"}

\* One call on a body: the function, the body and the time it is given
Call(fn, body, t) == [fn |-> fn, body |-> body, t |-> t]

\* foreach (PlanetP p, systemPlanets) p->fn(t): the calls, in list order
Pass(fn, list, t) == [j \in DOMAIN list |-> Call(fn, list[j], t)]

\* The time of the latest position computed for the body in the calls
PosTime(calls, body) ==
    LET hits == {j \in DOMAIN calls : calls[j].body = body}
    IN  IF hits = {} THEN "none"
        ELSE calls[CHOOSE j \in hits : \A k \in hits : k <= j].t

\* The passes of the light-time branch whatever the flag is
PositionCallsLightTime(observerPlanet, outcome) ==
    Pass("computePositionWithoutOrbits", systemPlanets, "JDE")
    \o <<Call("computePosition", observerPlanet, "JDE-obsDist/c"),
          Call("computePosition", observerPlanet, "JDE")>>
    \o Pass("computePosition", systemPlanets, "JDE-|pos-obsPosJDE|/c")

\* The observer is left at its earlier position
PositionCallsNoRestore(observerPlanet, outcome) ==
    Pass("computePositionWithoutOrbits", systemPlanets, "JDE")
    \o <<Call("computePosition", observerPlanet, "JDE-obsDist/c")>>
    \o Pass("computePosition", systemPlanets, "JDE-|pos-obsPosJDE|/c")

\* Lines 1158-1191: the position calls of computePositions(dateJDE,
\* observerPlanet), up to the point the outcome of the reads through
\* observerPlanet lets it reach
PositionCalls(observerPlanet, outcome) ==
    IF flagLightTravelTime THEN
        Pass("computePositionWithoutOrbits", systemPlanets, "JDE")
        \o (IF outcome = "crash" THEN <<>>
            ELSE <<Call("computePosition", observerPlanet, "JDE-obsDist/c"),
                   Call("computePosition", observerPlanet, "JDE")>>
                 \o Pass("computePosition", systemPlanets, "JDE-|pos-obsPosJDE|/c"))
    ELSE Pass("computePosition", systemPlanets, "JDE")

\* Line 1199: dateJD = dateJDE - computeDeltaT(dateJDE) / 86400, and line 1205:
\* the light delay of the body taken off a time
DeltaTCorrected(t) == IF t = "JDE" THEN "JD" ELSE "none"
LightSpeedCorrected(t) ==
    CASE t = "JD"  -> "JD-|pos-observerPos|/c"
      [] t = "JDE" -> "JDE-|pos-observerPos|/c"
      [] OTHER     -> "none"

\* foreach (PlanetP p, systemPlanets) p->computeTransMatrix(t, tJDE)
TransMatrixPass(t, tJDE) ==
    [j \in DOMAIN systemPlanets |->
        Call("computeTransMatrix", systemPlanets[j], t) @@ [tJDE |-> tJDE]]

\* The transform pass with the time of the ephemeris handed on as it is when
\* the light-time correction is off
TransformCallsUncorrected(observerPlanet, calls) ==
    <<Call("computeTransMatrices", observerPlanet, PosTime(calls, observerPlanet))>>
    \o (IF flagLightTravelTime
        THEN TransMatrixPass(LightSpeedCorrected(DeltaTCorrected("JDE")),
                             LightSpeedCorrected("JDE"))
        ELSE TransMatrixPass("JDE", "JDE"))

\* Lines 1192 and 1197-1216: computeTransMatrices is handed the position the
\* observer has after the position calls
TransformCalls(observerPlanet, calls) ==
    LET dateJD == DeltaTCorrected("JDE") IN
    <<Call("computeTransMatrices", observerPlanet, PosTime(calls, observerPlanet))>>
    \o (IF flagLightTravelTime
        THEN TransMatrixPass(LightSpeedCorrected(dateJD), LightSpeedCorrected("JDE"))
        ELSE TransMatrixPass(dateJD, "JDE"))

\* Lines 1156-1193: computePositions(dateJDE, observerPlanet)
computePositions(observerPlanet, outcome) ==
    LET calls == PositionCalls(observerPlanet, outcome) IN
    /\ passes' = IF outcome = "crash" THEN calls
                 ELSE calls \o TransformCalls(observerPlanet, calls)
    /\ lightTimeSunPosition' =
           IF ~flagLightTravelTime THEN "zero"
           ELSE IF outcome = "crash" THEN lightTimeSunPosition
           ELSE "obsPosJDE-obsPosJDEbefore"
    /\ UNCHANGED flagLightTravelTime

\* computePositions(JDE, getSun()), lines 153, 2200 and 1156-1193: it reads
\* observerPlanet->getHeliocentricEclipticPos() whatever the flags are
ComputePositions ==
    /\ pc = "computePositions"
    /\ \E outcome \in SunDerefOutcomes :
          /\ pc' = IF outcome = "crash" THEN "crashed"
                   ELSE IF caller = "init" THEN "initTail" ELSE "reloadTail"
          /\ last' = Step("computePositions", "", outcome, {})
          /\ computePositions(sun, outcome)
    /\ UNCHANGED <<srcVars, envVars, selVars, eclVars, rotVars, scaleVars, caller, ld, catVars, flagShow,
                   histVars, cntVars>>

\* setSelected(const QString&), lines 2115-2118 and 1597-1606: every body of
\* the catalogue is of type "Planet"
SelectedByName(englishName) == searchByEnglishName(englishName)

\* Planet::sphereScale of the body: 1 until setSphereScale is called on it
ScaleOf(p) == IF p \in DOMAIN sphereScale THEN sphereScale[p] ELSE 1

\* The members the two setters work on; null records a call through the empty
\* alias moon
MoonScaleState ==
    [flag |-> flagMoonScale, scale |-> moonScale, sphere |-> sphereScale, null |-> FALSE]

\* getMoon()->setSphereScale(f)
setSphereScale(st, f) ==
    IF moon = NULL THEN [st EXCEPT !.null = TRUE]
    ELSE [st EXCEPT !.sphere = (moon :> f) @@ st.sphere]

\* setFlagMoonScale(b), lines 2049-2058
setFlagMoonScale(st, b) ==
    IF b # st.flag
    THEN [setSphereScale(st, IF b THEN st.scale ELSE 1) EXCEPT !.flag = b]
    ELSE st

\* setMoonScale(f), lines 2061-2070
setMoonScale(st, f) ==
    IF st.scale # f
    THEN LET set == [st EXCEPT !.scale = f]
         IN  IF set.flag THEN setSphereScale(set, f) ELSE set
    ELSE st

\* What the build can make of the calls through the alias moon
MoonDerefOutcomes(st) == IF st.null THEN {"crash", "survive"} ELSE {"ok"}

\* The members take the values of st
ScaleSet(st) ==
    /\ flagMoonScale' = st.flag
    /\ moonScale' = st.scale
    /\ sphereScale' = st.sphere

\* init(), lines 155-217: setSelected(""), setFlagMoonScale and setMoonScale
\* with the values of config.ini, setFlagPlanets(conf value) and
\* recreateTrails(), which reads getSun()->satellites when nothing is selected
InitTail ==
    /\ pc = "initTail"
    /\ selected' = SelectedByName("")
    /\ LET st == setMoonScale(setFlagMoonScale(MoonScaleState, conf.flag_moon_scaled),
                              conf.moon_scale)
       IN  /\ ScaleSet(st)
           /\ \E confShow \in BOOLEAN, outcome \in SunDerefOutcomes,
                 moonOutcome \in MoonDerefOutcomes(st) :
                 /\ flagShow' = confShow
                 /\ pc' = IF \/ moonOutcome = "crash"
                             \/ outcome = "crash" /\ selected' = NULL
                          THEN "crashed" ELSE "idle"
                 /\ last' = Step("init", "", IF moonOutcome = "crash" THEN "crash" ELSE outcome, {})
    /\ UNCHANGED <<srcVars, envVars, simVars, selVars, eclVars, rotVars, caller, ld, heap,
                   systemPlanets, orbits, nOrbits, deletedOrbits, minorBodies, sun, earth,
                   moon, shadowPlanetCount, histVars, cntVars>>

\* reloadPlanets(), lines 2201-2229: setSelected(""), recreateTrails(), the
\* flags restored to the values they had and, when a Planet was selected, the
\* saved selectedObject handed back to the object manager, whose signal
\* selectedObjectChanged runs selectedObjectChange (lines 221 and 1689-1700)
ReloadTail ==
    /\ pc = "reloadTail"
    /\ \E outcome \in SunDerefOutcomes :
          LET unselected == SelectedByName("")
              \* lines 2141-2142: no setter has run since the values were saved
              flagScaleMoon == flagMoonScale
              savedScale    == moonScale
              st         == setMoonScale(setFlagMoonScale(MoonScaleState, flagScaleMoon),
                                         savedScale)
              crash      == outcome = "crash" /\ unselected = NULL
              restore    == ~crash /\ savedSelection # NULL
          IN  /\ pc' = IF crash THEN "crashed" ELSE "idle"
              /\ selected' = IF restore THEN savedSelection ELSE unselected
              /\ objMgrSelected' = IF restore THEN savedSelection ELSE objMgrSelected
              /\ savedSelection' = NULL
              /\ ScaleSet(IF crash THEN MoonScaleState ELSE st)
              /\ last' = Step("reloadPlanets", "", outcome, {})
    /\ UNCHANGED <<srcVars, envVars, simVars, eclVars, rotVars, caller, ld, heap, systemPlanets,
                   orbits, nOrbits, deletedOrbits, minorBodies, sun, earth, moon,
                   shadowPlanetCount, flagShow, histVars, cntVars>>

-----------------------------------------------------------------------------
(* Operations on the loaded module *)

\* The files were edited and not yet reloaded: the model follows an edit with
\* the reload at once
EditPending == nEdits > nReloads

\* The orders of a list
Orders(list) ==
    {q \in [DOMAIN list -> Range(list)] :
        \A x \in Range(list) :
            Cardinality({j \in DOMAIN list : q[j] = x})
                = Cardinality({j \in DOMAIN list : list[j] = x})}

\* draw(), lines 1229-1243: the catalogue is sorted on the distance to the
\* observer, which can be any order of the bodies
Draw ==
    /\ pc = "idle"
    /\ flagShow
    /\ nOps < MaxOps
    /\ ~EditPending
    /\ nOps' = nOps + 1
    /\ systemPlanets' \in Orders(systemPlanets)
    /\ last' = Step("draw", "", "", {})
    /\ UNCHANGED <<srcVars, envVars, simVars, selVars, eclVars, rotVars, scaleVars, pc, caller, ld, heap, orbits, nOrbits,
                   deletedOrbits, minorBodies, sun, earth, moon, selected,
                   shadowPlanetCount, flagShow, histVars, nReloads, nEdits>>

\* The names removePlanet is called with
RemovableNames == NameSet(heap, systemPlanets) \cup {"Pluto"}

\* removePlanet(name), lines 2399-2421
RemovePlanet(name) ==
    /\ pc = "idle"
    /\ nOps < MaxOps
    /\ ~EditPending
    /\ nOps' = nOps + 1
    /\ LET candidate == searchByEnglishName(name) IN
       IF candidate = NULL THEN
           /\ last' = Step("removePlanet", name, "false", {"Cannot remove planet: Not found."})
           /\ UNCHANGED <<pc, systemPlanets, orbits>>
       ELSE IF heap[candidate].pType < isAsteroid /\ build = "debug" THEN
           \* Q_ASSERT(0)
           /\ last' = Step("removePlanet", name, "abort", {"REMOVING MAJOR OBJECT"})
           /\ pc' = "aborted"
           /\ UNCHANGED <<systemPlanets, orbits>>
       ELSE
           /\ last' = Step("removePlanet", name, "true",
                           IF heap[candidate].pType < isAsteroid
                           THEN {"REMOVING MAJOR OBJECT"} ELSE {})
           /\ orbits' = IF heap[candidate].orbitPtr # NULL
                        THEN RemoveOne(orbits, heap[candidate].orbitPtr)
                        ELSE orbits
           /\ systemPlanets' = RemoveOne(systemPlanets, candidate)
           /\ UNCHANGED pc
    /\ UNCHANGED <<srcVars, envVars, simVars, selVars, eclVars, rotVars, scaleVars, caller, ld, heap, nOrbits, deletedOrbits,
                   minorBodies, sun, earth, moon, selected, shadowPlanetCount,
                   flagShow, histVars, nReloads, nEdits>>

\* reloadPlanets(), lines 2138-2184: the selection is released, the orbits are
\* deleted and the aliases cleared
ReloadBegin ==
    /\ pc = "idle"
    /\ nReloads < MaxReloads
    /\ nReloads' = nReloads + 1
    /\ pc' = "teardown"
    /\ savedSelection' = objMgrSelected
    /\ objMgrSelected' = NULL
    /\ selected' = NULL
    /\ deletedOrbits' = deletedOrbits \cup Range(orbits)
    /\ orbits' = <<>>
    /\ sun' = NULL /\ moon' = NULL /\ earth' = NULL
    /\ last' = Step("reloadPlanets", "", "", {})
    /\ UNCHANGED <<srcVars, envVars, simVars, eclVars, rotVars, scaleVars, caller, ld, heap, systemPlanets, nOrbits,
                   minorBodies, shadowPlanetCount, flagShow, histVars, nOps, nEdits>>

\* The catalogue is kept over the reload
ReloadTeardownKeeps ==
    /\ pc = "teardown"
    /\ pc' = "loadPlanets"
    /\ caller' = "reload"
    /\ last' = Step("reloadPlanets", "", "", {})
    /\ UNCHANGED <<srcVars, envVars, simVars, selVars, eclVars, rotVars, scaleVars, ld, catVars, flagShow, histVars, cntVars>>

\* reloadPlanets(), lines 2186-2199: the child lists and the catalogue are
\* cleared, then loadPlanets() is called
ReloadTeardown ==
    /\ pc = "teardown"
    /\ heap' = ClearSatellites(heap, Range(systemPlanets))
    /\ systemPlanets' = <<>>
    /\ pc' = "loadPlanets"
    /\ caller' = "reload"
    /\ last' = Step("reloadPlanets", "", "", {})
    /\ UNCHANGED <<srcVars, envVars, simVars, selVars, eclVars, rotVars, scaleVars, ld, orbits, nOrbits, deletedOrbits, minorBodies,
                   sun, earth, moon, selected, shadowPlanetCount, flagShow,
                   histVars, cntVars>>

\* A simulation step of the core: computePositions(JDE, the observer's planet),
\* lines 1156-1193
SimulationStep ==
    /\ pc = "idle"
    /\ nOps < MaxOps
    /\ nOps' = nOps + 1
    /\ \E observerPlanet \in (IF systemPlanets = <<>> THEN {sun} ELSE Range(systemPlanets)) :
       \E outcome \in (IF observerPlanet = NULL THEN {"crash", "survive"} ELSE {"ok"}) :
          /\ pc' = IF outcome = "crash" THEN "crashed" ELSE "idle"
          /\ last' = Step("computePositions", "", outcome, {})
          /\ computePositions(observerPlanet, outcome)
    /\ UNCHANGED <<srcVars, envVars, selVars, eclVars, rotVars, scaleVars, caller, ld, catVars, flagShow,
                   histVars, nReloads, nEdits>>

\* setFlagLightTravelTime(b), lines 1577-1584
SetFlagLightTravelTime(b) ==
    /\ pc = "idle"
    /\ nOps < MaxOps
    /\ nOps' = nOps + 1
    /\ flagLightTravelTime' = b
    /\ last' = Step("setFlagLightTravelTime", "", "", {})
    /\ UNCHANGED <<srcVars, envVars, lightTimeSunPosition, passes, selVars, eclVars, rotVars, scaleVars, pc,
                   caller, ld, catVars, flagShow, histVars, nReloads, nEdits>>

\* The object manager selects the body, or nothing (NULL), and its signal
\* runs selectedObjectChange, lines 1689-1700, and setSelected, lines 1597-1606
SelectObject(obj) ==
    /\ pc = "idle"
    /\ nOps < MaxOps
    /\ nOps' = nOps + 1
    /\ objMgrSelected' = obj
    /\ selected' = IF obj # NULL THEN obj ELSE SelectedByName("")
    /\ last' = Step("selectedObjectChange", "", "", {})
    /\ UNCHANGED <<srcVars, envVars, simVars, savedSelection, eclVars, rotVars, scaleVars, pc, caller, ld,
                   heap, systemPlanets, orbits, nOrbits, deletedOrbits, minorBodies,
                   sun, earth, moon, shadowPlanetCount, flagShow, histVars,
                   nReloads, nEdits>>

-----------------------------------------------------------------------------
(* The queries by name, lines 1322-1330 and 1353-1400 *)

\* getPlanetVMagnitude, getPlanetType, getDistanceToPlanet,
\* getElongationForPlanet, getPhaseAngleForPlanet and getPhaseForPlanet
PlanetQueries ==
    {"getPlanetVMagnitude", "getPlanetType", "getDistanceToPlanet",
     "getElongationForPlanet", "getPhaseAngleForPlanet", "getPhaseForPlanet"}

\* What the build can make of the call p->...() on the handle the search has
\* returned: the call through the empty handle is undefined
HandleDerefOutcomes(p) == IF p = NULL THEN {"crash", "survive"} ELSE {"ok"}

\* searchByEnglishName(planetEnglishName) called from outside, lines 1322-1330
SearchByEnglishName(name) ==
    /\ pc = "idle"
    /\ nOps < MaxOps
    /\ nOps' = nOps + 1
    /\ last' = Step("searchByEnglishName", name,
                    IF searchByEnglishName(name) = NULL THEN "empty" ELSE "found", {})
    /\ UNCHANGED <<srcVars, envVars, simVars, selVars, eclVars, rotVars, scaleVars, pc, caller,
                   ld, catVars, flagShow, histVars, nReloads, nEdits>>

\* One of the six queries, lines 1353-1400: PlanetP p =
\* searchByEnglishName(planetName); r = p->...(); return r
PlanetQuery(fn, planetName) ==
    /\ pc = "idle"
    /\ nOps < MaxOps
    /\ nOps' = nOps + 1
    /\ \E outcome \in HandleDerefOutcomes(searchByEnglishName(planetName)) :
          /\ pc' = IF outcome = "crash" THEN "crashed" ELSE pc
          /\ last' = Step(fn, planetName, outcome, {})
    /\ UNCHANGED <<srcVars, envVars, simVars, selVars, eclVars, rotVars, scaleVars, caller,
                   ld, catVars, flagShow, histVars, nReloads, nEdits>>

-----------------------------------------------------------------------------
(* getEclipseFactor, lines 2329-2397                                        *)
(* The angular radii R and r and the separation d are multiples of one grid *)
(* step; an illumination is a multiple of 1/One, and One is the product of  *)
(* the squares of the radii of the grid so that 1 - r*r/(R*R) is exact.     *)

\* The largest angular radius, in grid steps
MaxAngle == 2

MaxSeparation == 2 * MaxAngle

RECURSIVE SquareProduct(_)
SquareProduct(k) == IF k = 0 THEN 1 ELSE k * k * SquareProduct(k - 1)

\* The illumination 1.0
One == SquareProduct(MaxAngle)

\* The double that is not a number; every comparison with it is false
NaN == 2 * One

Less(a, b) == a # NaN /\ b # NaN /\ a < b

\* What lines 2380-2389 give in double arithmetic. The acos, sin and asin of
\* the formula are not evaluated here: its value is any illumination between
\* 0.0 and 1.0, or the value just below 0.0 that the rounding of
\* 1.0 - (AR + Ar) / AS leaves when the two discs nearly coincide (R =
\* 0.0039901013031741935, r = 0.005022870095910694, d = 0.0010327687927600194
\* give -2.220446049250313e-16), or NaN when rounding takes an argument of
\* acos out of [-1, 1] (R = 0.006220635140274145, r = 0.006341916986749777,
\* d = 0.0001212818464756318).
LensValues == ((0 - 1)..One) \cup {NaN}

\* The regimes of lines 2366-2390 with the umbra tested first
ContributionUmbraFirst(R, r, d, lens) ==
    IF d <= r - R THEN [regime |-> "umbra", illumination |-> 0]
    ELSE IF d >= R + r THEN [regime |-> "far", illumination |-> One]
    ELSE IF d <= R - r
         THEN [regime |-> "penumbra", illumination |-> One - (r * r * One) \div (R * R)]
    ELSE [regime |-> "lens", illumination |-> lens]

\* The regimes of lines 2366-2390 with a strict first test
ContributionStrictFar(R, r, d, lens) ==
    IF d > R + r THEN [regime |-> "far", illumination |-> One]
    ELSE IF d <= r - R THEN [regime |-> "umbra", illumination |-> 0]
    ELSE IF d <= R - r
         THEN [regime |-> "penumbra", illumination |-> One - (r * r * One) \div (R * R)]
    ELSE [regime |-> "lens", illumination |-> lens]

\* The illumination one body leaves, lines 2366-2390; lens is the value of
\* lines 2380-2389
Contribution(R, r, d, lens) ==
    IF d >= R + r THEN [regime |-> "far", illumination |-> One]
    ELSE IF d <= r - R THEN [regime |-> "umbra", illumination |-> 0]
    ELSE IF d <= R - r
         THEN [regime |-> "penumbra", illumination |-> One - (r * r * One) \div (R * R)]
    ELSE [regime |-> "lens", illumination |-> lens]

\* The bodies the loop does not skip, line 2339, in list order
Occluders(current) ==
    SelectSeq(systemPlanets, LAMBDA p : p # sun /\ p # current)

\* final_illumination after the bodies 1..j, lines 2335 and 2392-2393
RECURSIVE FinalIllumination(_, _)
FinalIllumination(contributions, j) ==
    IF j = 0 THEN One
    ELSE LET final == FinalIllumination(contributions, j - 1)
         IN  IF Less(contributions[j].illumination, final)
             THEN contributions[j].illumination
             ELSE final

\* getEclipseFactor(core): the observer is on the body current, the source
\* has the angular radius R, the body p the angular radius and the separation
\* geometry[p]. The function is const and its result does not depend on the
\* calls before it: the first call of a run is followed
GetEclipseFactor ==
    /\ pc = "idle"
    /\ eclipse = NoEclipse
    /\ nOps < MaxOps
    /\ nOps' = nOps + 1
    /\ \E outcome \in SunDerefOutcomes :
       \E current \in (IF systemPlanets = <<>> THEN {NULL} ELSE Range(systemPlanets)) :
       \E R \in 0..MaxAngle :
          LET occluders == Occluders(current)
          IN  \E geometry \in [Range(occluders) -> (0..MaxAngle) \X (0..MaxSeparation)] :
              \E lens \in [{p \in Range(occluders) :
                               Contribution(R, geometry[p][1], geometry[p][2], 0).regime
                                   = "lens"} -> LensValues] :
                 LET contributions ==
                         [j \in DOMAIN occluders |->
                             LET p == occluders[j]
                                 r == geometry[p][1]
                                 d == geometry[p][2]
                                 c == Contribution(R, r, d, 0)
                             IN  [planet |-> p, r |-> r, d |-> d] @@
                                 (IF c.regime = "lens"
                                  THEN Contribution(R, r, d, lens[p]) ELSE c)]
                 IN  /\ pc' = IF outcome = "crash" THEN "crashed" ELSE "idle"
                     /\ last' = Step("getEclipseFactor", "", outcome, {})
                     /\ eclipse' =
                            IF outcome = "crash" THEN eclipse
                            ELSE [R |-> R, current |-> current,
                                  contributions |-> contributions,
                                  result |-> FinalIllumination(contributions,
                                                               Len(contributions))]
    /\ UNCHANGED <<srcVars, envVars, simVars, selVars, rotVars, scaleVars, caller, ld, catVars,
                   flagShow, histVars, nReloads, nEdits>>

\* setFlagMoonScale(b) called by the user interface, lines 2049-2058
SetFlagMoonScale(b) ==
    /\ pc = "idle"
    /\ nOps < MaxOps
    /\ nOps' = nOps + 1
    /\ LET st == setFlagMoonScale(MoonScaleState, b)
       IN  /\ ScaleSet(st)
           /\ \E outcome \in MoonDerefOutcomes(st) :
                 /\ pc' = IF outcome = "crash" THEN "crashed" ELSE "idle"
                 /\ last' = Step("setFlagMoonScale", "", outcome, {})
    /\ UNCHANGED <<srcVars, envVars, simVars, selVars, eclVars, rotVars, caller, ld, catVars,
                   flagShow, histVars, nReloads, nEdits>>

\* setMoonScale(f) called by the user interface, lines 2061-2070
SetMoonScale(f) ==
    /\ pc = "idle"
    /\ nOps < MaxOps
    /\ nOps' = nOps + 1
    /\ LET st == setMoonScale(MoonScaleState, f)
       IN  /\ ScaleSet(st)
           /\ \E outcome \in MoonDerefOutcomes(st) :
                 /\ pc' = IF outcome = "crash" THEN "crashed" ELSE "idle"
                 /\ last' = Step("setMoonScale", "", outcome, {})
    /\ UNCHANGED <<srcVars, envVars, simVars, selVars, eclVars, rotVars, caller, ld, catVars,
                   flagShow, histVars, nReloads, nEdits>>

-----------------------------------------------------------------------------
(* The rotation elements of a section, lines 1084-1117 *)

\* What a rotation key of a section can hold: nothing, a number or other text
RotationValues == {Unset, "0", "30", "60", "north"}

\* QVariant::toDouble() of the value, the default 0. taken for a missing key;
\* text that is no number gives 0.0
ToDegrees(v) ==
    CASE v = "30" -> 30
      [] v = "60" -> 60
      [] OTHER    -> 0

\* Lines 1084-1109: the obliquity and the ascending node handed to
\* setRotationElements, as the keys they are computed from. The conversion of
\* the pole to the VSOP87 frame is kept as the pair it is applied to
RotationElements(keys) ==
    LET J2000NPoleRA == ToDegrees(keys.rot_pole_ra)
        J2000NPoleDE == ToDegrees(keys.rot_pole_de)
    IN  IF J2000NPoleRA # 0 \/ J2000NPoleDE # 0
        THEN [rotObliquity |-> [from |-> "pole", ra |-> J2000NPoleRA, de |-> J2000NPoleDE],
              rotAscNode   |-> [from |-> "pole", ra |-> J2000NPoleRA, de |-> J2000NPoleDE]]
        ELSE [rotObliquity |-> [from |-> "rot_obliquity",
                                deg |-> ToDegrees(keys.rot_obliquity)],
              rotAscNode   |-> [from |-> "rot_equator_ascending_node",
                                deg |-> ToDegrees(keys.rot_equator_ascending_node)]]

\* Stage 3 reads the rotation keys of a section and calls setRotationElements,
\* lines 1084-1117
SetRotationElements ==
    /\ ~rotation.done
    /\ \E keys \in [rot_obliquity : RotationValues,
                    rot_equator_ascending_node : RotationValues,
                    rot_pole_ra : RotationValues,
                    rot_pole_de : RotationValues] :
          rotation' = [keys |-> keys, done |-> TRUE] @@ RotationElements(keys)
    /\ last' = Step("setRotationElements", "", "", {})
    /\ UNCHANGED <<srcVars, envVars, simVars, selVars, eclVars, scaleVars, pc, caller, ld,
                   catVars, flagShow, histVars, cntVars>>

\* The catalogue files are changed on disk while the program runs
EditSources ==
    /\ pc = "idle"
    /\ nEdits < MaxEdits
    /\ nReloads < MaxReloads
    /\ ~EditPending
    /\ nEdits' = nEdits + 1
    /\ \E choice \in ({"primary"} \X EditedPrimaries) \cup ({"minors"} \X EditedMinors) :
          IF choice[1] = "primary"
          THEN primary' = choice[2] /\ UNCHANGED minors
          ELSE minors' = choice[2] /\ UNCHANGED primary
    /\ last' = Step("edit", "", "", {})
    /\ UNCHANGED <<envVars, simVars, selVars, eclVars, rotVars, scaleVars, pc, caller, ld, catVars, flagShow, histVars, nOps, nReloads>>

-----------------------------------------------------------------------------
(* The specification *)

Next ==
    \/ InitCall
    \/ LoadPlanetsEnter
    \/ OpenFile
    \/ LoadSection
    \/ EndFile
    \/ ComputePositions
    \/ InitTail
    \/ ReloadTail
    \/ Draw
    \/ \E name \in RemovableNames : RemovePlanet(name)
    \/ ReloadBegin
    \/ ReloadTeardown
    \/ EditSources

Spec == Init /\ [][Next]_vars

\* init() alone, on all the records of the pools
NextLoad ==
    \/ InitCall
    \/ LoadPlanetsEnter
    \/ OpenFile
    \/ LoadSection
    \/ EndFile
    \/ ComputePositions
    \/ InitTail

SpecLoad == InitLoad /\ [][NextLoad]_vars

\* The simulation on a small catalogue: the Sun, the Earth and the Moon, with
\* Ceres in the minor-bodies file
SimPrimaryPool == Pick(PrimaryPool, {1, 2, 5}, 1)
SimMinors ==
    {<<>>, <<Source("install", "ok", <<MinorPool[1]>>)>>,
     <<Source("install", "parseError", <<>>)>>}

InitSim ==
    /\ primary \in {Source("install", "ok", f) : f \in Files(SimPrimaryPool, MaxPrimaryRecords)}
    /\ minors \in SimMinors
    /\ Constructed

NextSim ==
    \/ InitCall
    \/ LoadPlanetsEnter
    \/ OpenFile
    \/ LoadSection
    \/ EndFile
    \/ ComputePositions
    \/ InitTail
    \/ ReloadTail
    \/ Draw
    \/ \E name \in RemovableNames : RemovePlanet(name)
    \/ ReloadBegin
    \/ ReloadTeardown
    \/ SimulationStep
    \/ \E b \in BOOLEAN : SetFlagLightTravelTime(b)
    \/ \E obj \in Range(systemPlanets) \cup {NULL} : SelectObject(obj)

SpecSim == InitSim /\ [][NextSim]_vars

\* getEclipseFactor on the catalogues of the Sun, the Earth and the Moon
InitEclipse ==
    /\ primary \in {Source("install", "ok", f) : f \in Files(SimPrimaryPool, MaxPrimaryRecords)}
    /\ minors = <<>>
    /\ Constructed

NextEclipse ==
    \/ InitCall
    \/ LoadPlanetsEnter
    \/ OpenFile
    \/ LoadSection
    \/ EndFile
    \/ ComputePositions
    \/ InitTail
    \/ GetEclipseFactor

SpecEclipse == InitEclipse /\ [][NextEclipse]_vars

\* The scale of the Moon: the catalogues of the Sun, the Earth and the Moon
\* under every configuration of the Moon's scale
MoonScales == {1, 2, 4}

InitScale ==
    /\ primary \in {Source("install", "ok", f) : f \in Files(SimPrimaryPool, MaxPrimaryRecords)}
    /\ minors = <<>>
    /\ \E c \in [flag_moon_scaled : BOOLEAN, moon_scale : MoonScales] : ConstructedWith(c)

NextScale ==
    \/ InitCall
    \/ LoadPlanetsEnter
    \/ OpenFile
    \/ LoadSection
    \/ EndFile
    \/ ComputePositions
    \/ InitTail
    \/ ReloadBegin
    \/ ReloadTeardown
    \/ ReloadTail
    \/ \E b \in BOOLEAN : SetFlagMoonScale(b)
    \/ \E f \in MoonScales : SetMoonScale(f)

SpecScale == InitScale /\ [][NextScale]_vars

\* The rotation keys of one section, whatever they hold
InitRotation ==
    /\ primary = Source("install", "ok", <<>>)
    /\ minors = <<>>
    /\ Constructed

NextRotation == SetRotationElements

SpecRotation == InitRotation /\ [][NextRotation]_vars

\* The queries by name on the catalogues of the Sun, the Earth, the Moon and
\* Ceres, with bodies removed
InitQuery ==
    /\ primary \in {Source("install", "ok", f) : f \in Files(SimPrimaryPool, MaxPrimaryRecords)}
    /\ minors \in {<<>>, <<Source("install", "ok", <<MinorPool[1]>>)>>}
    /\ Constructed

NextQuery ==
    \/ InitCall
    \/ LoadPlanetsEnter
    \/ OpenFile
    \/ LoadSection
    \/ EndFile
    \/ ComputePositions
    \/ InitTail
    \/ \E name \in RemovableNames : RemovePlanet(name)
    \/ \E name \in RemovableNames : SearchByEnglishName(name)
    \/ \E fn \in PlanetQueries, name \in RemovableNames : PlanetQuery(fn, name)

SpecQuery == InitQuery /\ [][NextQuery]_vars

\* The classes of the bodies: Pluto as a dwarf planet in the primary file and
\* an asteroid, a comet, a dwarf planet and a second body named after Pluto in
\* the minor-bodies file
ClassPrimaryPool ==
    << Rec("sun", "Sun", "none", "sun_special", "star"),
       Rec("pluto", "Pluto", Unset, "pluto_special", "dwarf planet") >>

ClassMinorPool ==
    << Rec("ceres", "Ceres", Unset, "comet_orbit", "asteroid"),
       Rec("encke", "Encke", Unset, "comet_orbit", "comet"),
       Rec("eris", "Eris", Unset, "comet_orbit", "dwarf planet"),
       Rec("pluto2", "Pluto II", Unset, "comet_orbit", "plutino") >>

InitClass ==
    /\ primary \in {Source("install", "ok", f) : f \in Files(ClassPrimaryPool, MaxPrimaryRecords)}
    /\ minors \in {<<>>} \cup {<<Source("install", "ok", f)>> :
                                  f \in Files(ClassMinorPool, MaxMinorRecords)}
    /\ Constructed

SpecClass == InitClass /\ [][NextLoad]_vars

-----------------------------------------------------------------------------
(* The order of the sections alone: loadPlanets(primary file) on every file *)
(* of at most MaxSections sections over a few names and parents             *)

OrderNames   == {"Sun", "Earth", "Moon", ""}
OrderParents == {Unset, "none", "Earth", "Moon", "Mars2", ""}
SectionNames == <<"s1", "s2", "s3", "s4", "s5">>

OrderFiles ==
    UNION {{[i \in 1..n |-> Rec(SectionNames[i], f[i][1], f[i][2], "ell_orbit", "planet")] :
               f \in [1..n -> OrderNames \X OrderParents]} : n \in 0..MaxSections}

\* init() has called loadPlanets(), which is about to read the primary file
InitOrder ==
    /\ primary \in {Source("install", "ok", f) : f \in OrderFiles}
    /\ minors = <<>>
    /\ build = "release"
    /\ pc = "open"
    /\ caller = "init"
    /\ ld = [NoLoader EXCEPT !.src = <<primary, minors>>]
    /\ heap = <<>>
    /\ systemPlanets = <<>>
    /\ orbits = <<>>
    /\ nOrbits = 0
    /\ deletedOrbits = {}
    /\ minorBodies = <<>>
    /\ sun = NULL /\ earth = NULL /\ moon = NULL
    /\ selected = NULL
    /\ shadowPlanetCount = 0
    /\ flagShow = FALSE
    /\ last = Step("loadPlanets", "", "", {})
    /\ loadNo = 1
    /\ lastLoad = NoLoad
    /\ prevLoad = NoLoad
    /\ nOps = 0 /\ nReloads = 0 /\ nEdits = 0
    /\ flagLightTravelTime = TRUE
    /\ lightTimeSunPosition = "unset"
    /\ passes = <<>>
    /\ objMgrSelected = NULL
    /\ savedSelection = NULL
    /\ eclipse = NoEclipse
    /\ conf = DefaultConf
    /\ rotation = NoRotation
    /\ flagMoonScale = FALSE
    /\ moonScale = 1
    /\ sphereScale = <<>>

NextOrder == OpenFile

SpecOrder == InitOrder /\ [][NextOrder]_vars

-----------------------------------------------------------------------------
(* Claims *)

\* Stages 1 and 2 of loadPlanets(primary file) have just run
OrderBuilt == pc = "stage3" /\ ld.file = 0 /\ ld.i = 1

\* The index of the record a record names as its parent, 0 when there is none
ParentIndex(file, i) ==
    LET hits == {j \in DOMAIN file : file[j].name = ParentStr(file[i])}
    IN  IF ParentStr(file[i]) = "none" \/ hits = {} THEN 0 ELSE CHOOSE j \in hits : TRUE

RECURSIVE Ancestor(_, _, _)
Ancestor(file, i, k) ==
    IF k = 0 THEN i
    ELSE LET a == Ancestor(file, i, k - 1)
         IN  IF a = 0 THEN 0 ELSE ParentIndex(file, a)

DistinctNames(file) ==
    \A i, j \in DOMAIN file : file[i].name = file[j].name => i = j
AcyclicParents(file) == \A i \in DOMAIN file : Ancestor(file, i, Len(file)) = 0
ParentsInFile(file) ==
    \A i \in DOMAIN file :
        \/ ParentStr(file[i]) = "none"
        \/ \E j \in DOMAIN file \ {i} : file[j].name = ParentStr(file[i])

\* The catalogues C1 is about
ValidCatalogue(file) ==
    DistinctNames(file) /\ AcyclicParents(file) /\ ParentsInFile(file)

NamedRecords(file) == \A i \in DOMAIN file : file[i].name # ""

PositionOf(list, x) == CHOOSE j \in DOMAIN list : list[j] = x

\* Every section is listed, and strictly after the section of its parent
ParentsFirst(file, ordered) ==
    \A i \in DOMAIN file :
        /\ \E j \in DOMAIN ordered : ordered[j] = file[i].sec
        /\ ParentIndex(file, i) # 0 =>
              PositionOf(ordered, file[ParentIndex(file, i)].sec)
                  < PositionOf(ordered, file[i].sec)

-----------------------------------------------------------------------------
(* Claims on loadPlanets() *)

\* loadPlanets() has returned to init() or reloadPlanets()
LoadReturned == pc = "computePositions"

\* The bodies the running load has created from the file of that index
LoadedFrom(file) ==
    {p \in DOMAIN heap : heap[p].load = loadNo /\ heap[p].file = file}

\* loadPlanets(minor file) has just returned false
SecondaryFailed ==
    /\ last.op = "loadPlanets"
    /\ last.name = "ssystem_minor.ini"
    /\ last.result = "false"

\* C2: when the load of a secondary file has failed, every body loaded from
\* the primary file is still in systemPlanets and no body of a secondary file
\* is: exactly the bodies the failed file introduced are removed.
C2_SecondaryFailureKeepsPrimary ==
    SecondaryFailed =>
        /\ LoadedFrom(0) \subseteq Range(systemPlanets)
        /\ \A p \in Range(systemPlanets) : heap[p].file = 0

PrimaryErrors ==
    {"ERROR while loading ssystem_major.ini (unable to find)",
     "ERROR while loading ssystem_major.ini"}

\* The primary file is absent, does not parse, or has given no body
PrimaryNotLoaded == primary.status # "ok" \/ LoadedFrom(0) = {}

\* C3: when loadPlanets() returns, on init() and on reloadPlanets(), from a
\* primary file that is absent, does not parse or gives no body, it has
\* reported the failure and systemPlanets is empty.
C3_PrimaryFailureEmptiesCatalogue ==
    (LoadReturned /\ PrimaryNotLoaded) =>
        /\ systemPlanets = <<>>
        /\ last.op = "loadPlanets"
        /\ last.msgs \cap PrimaryErrors # {}

\* A reload of a loaded catalogue has found the primary file unparsable
C3_Witness ==
    /\ LoadReturned
    /\ caller = "reload"
    /\ primary.status = "parseError"
    /\ prevLoad.names # {}
    /\ systemPlanets = <<>>
    /\ last.msgs \cap PrimaryErrors # {}

\* C4: computePositions is never run while the catalogue is empty or the
\* alias sun is unset.
C4_NoComputeOnEmptyCatalogue ==
    last.op = "computePositions" => (systemPlanets # <<>> /\ sun # NULL)

NoParentMsg == "ERROR : can't find parent solar system body"

\* The step is stage 3 reading a section and finding no body of the name of
\* its parent
NoParentStep == pc = "stage3" /\ last'.op = "section" /\ NoParentMsg \in last'.msgs

\* The step is loadPlanets(filePath) returning after its last section
EndFileStep == pc = "stage3" /\ last'.op = "loadPlanets"

\* The sections read whose parent is in the catalogue at no time of the load
UnresolvedAtEnd ==
    {sec \in Range(ld.ordered) :
        LET rec == RecordOf(CurSource.records, sec)
        IN  ParentStr(rec) # "none" /\ ParentStr(rec) \notin NameSet(heap, systemPlanets)}

\* The section is left out and the loop goes on
SectionSkipped ==
    /\ UNCHANGED <<heap, systemPlanets, orbits, nOrbits, minorBodies, sun, earth, moon>>
    /\ pc' = "stage3"
    /\ ld'.i = ld.i + 1

ElementErrorMsgs ==
    {"ERROR: you must provide orbit_PericenterDistance or orbit_SemiMajorAxis",
     "ERROR: you must provide either orbit_MeanMotion or orbit_Period",
     "ERROR: you must provide both orbit_Epoch and orbit_MeanAnomaly"}

\* C6: every section for which the loader reports an error on the orbital
\* elements is skipped: the catalogue, the orbits, the minor-body names and
\* the child lists are unchanged and the loop goes on.
C6_ElementErrorSkipped ==
    [][(pc = "stage3" /\ last'.op = "section" /\ last'.msgs \cap ElementErrorMsgs # {})
           => SectionSkipped]_vars

\* The step is stage 3 reading a section whose coord_func is none of ell_orbit,
\* comet_orbit and the special functions
UnknownFuncStep ==
    /\ pc = "stage3"
    /\ last'.op = "section"
    /\ RecordOf(CurSource.records, last'.name).func
           \notin {"ell_orbit", "comet_orbit"} \cup SpecialFuncs

\* The process is ended by exit(-1): nothing is loaded and nothing follows
ProcessExits ==
    /\ pc' = "exited"
    /\ UNCHANGED <<ld, heap, systemPlanets, orbits, minorBodies>>

\* C7 as stated: every section of unrecognised coord_func that stage 3 reads
\* ends the process.
C7_AsStated == [][UnknownFuncStep => ProcessExits]_vars

\* C7, amended: every section of unrecognised coord_func whose parent is
\* "none" or a body of the catalogue ends the process when stage 3 reads it,
\* and an ended process takes no further step.
C7_UnknownFuncExits ==
    [][/\ (UnknownFuncStep /\ NoParentMsg \notin last'.msgs) => ProcessExits
       /\ pc # "exited"]_vars

\* Vulcan has ended the process with sections of the file still to read
C7_Witness ==
    /\ pc = "exited"
    /\ last.op = "section" /\ last.name = "vulcan" /\ last.result = "exit"
    /\ ld.i < Len(ld.ordered)

-----------------------------------------------------------------------------
(* Claims on reloadPlanets() and removePlanet() *)

RemoveStep == pc = "idle" /\ last'.op = "removePlanet"

\* C9: removePlanet(name) of a name of the catalogue returns true and removes
\* exactly one body, after which the name is in no listing; of another name it
\* returns false and changes nothing.
C9_RemoveFrame ==
    [][RemoveStep =>
          IF last'.name \in NameSet(heap, systemPlanets)
          THEN /\ last'.result = "true"
               /\ last'.name \notin NameSet(heap', systemPlanets')
               /\ \E p \in Range(systemPlanets) :
                     /\ heap[p].englishName = last'.name
                     /\ systemPlanets' = SelectSeq(systemPlanets, LAMBDA q : q # p)
          ELSE /\ last'.result = "false"
               /\ UNCHANGED catVars]_vars

\* C10: a body of type below isAsteroid is still in the catalogue after
\* removePlanet was called with its name.
C10_MajorBodiesStay ==
    [][RemoveStep =>
          LET candidate == searchByEnglishName(last'.name)
          IN  (candidate # NULL /\ heap[candidate].pType < isAsteroid)
                  => candidate \in Range(systemPlanets')]_vars

-----------------------------------------------------------------------------
(* Claims on computePositions *)

\* computePositions has just run, from init(), reloadPlanets() or the core
Computed == last.op = "computePositions"

\* The calls of one pass: those of one function and one time
SamePass(c1, c2) == c1.fn = c2.fn /\ c1.t = c2.t

\* C11: in every pass of computePositions and computeTransMatrices over
\* systemPlanets, whatever was loaded, drawn, removed and reloaded before, a
\* body is processed after its parent.
C11_ParentsComputedFirst ==
    Computed =>
        \A j, k \in DOMAIN passes :
            (/\ passes[j].body # NULL
             /\ SamePass(passes[j], passes[k])
             /\ heap[passes[j].body].parent = passes[k].body) => k < j

\* The calls among the passes that compute a position
PositionFns == {"computePosition", "computePositionWithoutOrbits"}
PositionCallsIn(calls) == {j \in DOMAIN calls : calls[j].fn \in PositionFns}

\* C12: with light-time correction off, computePositions computes every body
\* of the catalogue exactly once, at the time given with no offset, and sets
\* lightTimeSunPosition to zero.
C12_InstantMode ==
    (Computed /\ ~flagLightTravelTime) =>
        /\ \A p \in Range(systemPlanets) :
              Cardinality({j \in PositionCallsIn(passes) : passes[j].body = p}) = 1
        /\ \A j \in PositionCallsIn(passes) :
              /\ passes[j].fn = "computePosition"
              /\ passes[j].t = "JDE"
              /\ passes[j].body \in Range(systemPlanets)
        /\ lightTimeSunPosition = "zero"

\* A catalogue of several bodies has been computed with the correction off
C12_Witness ==
    /\ Computed /\ ~flagLightTravelTime
    /\ last.result = "ok"
    /\ Len(systemPlanets) >= 2
    /\ Cardinality(PositionCallsIn(passes)) = Len(systemPlanets)
    /\ lightTimeSunPosition = "zero"

\* computePositions has run to its end with an observer
ComputedWithObserver ==
    /\ Computed
    /\ last.result = "ok"
    /\ Len(passes) > Len(systemPlanets)
    /\ passes[Len(systemPlanets) + 1].body # NULL

\* C13: with light-time correction on, computePositions calls, in this order,
\* computePositionWithoutOrbits at T on every body, computePosition on the
\* observer alone at the earlier time, computePosition on the observer at T,
\* then computePosition on every body once at T minus its own delay from the
\* observer's position at T; the transform pass is handed a position of the
\* observer that is not the one of the earlier time.
C13_LightTimePasses ==
    (ComputedWithObserver /\ flagLightTravelTime) =>
        LET n   == Len(systemPlanets)
            obs == passes[n + 1].body
        IN  /\ Len(passes) = 3 * n + 3
            /\ \A i \in 1..n :
                  /\ passes[i] = Call("computePositionWithoutOrbits", systemPlanets[i], "JDE")
                  /\ passes[n + 2 + i]
                        = Call("computePosition", systemPlanets[i], "JDE-|pos-obsPosJDE|/c")
                  /\ \A k \in 1..n : systemPlanets[k] = systemPlanets[i] => k = i
            /\ passes[n + 1] = Call("computePosition", obs, "JDE-obsDist/c")
            /\ passes[n + 2] = Call("computePosition", obs, "JDE")
            /\ passes[2 * n + 3].fn = "computeTransMatrices"
            /\ passes[2 * n + 3].body = obs
            /\ passes[2 * n + 3].t \in {"JDE", "JDE-|pos-obsPosJDE|/c"}
            /\ lightTimeSunPosition = "obsPosJDE-obsPosJDEbefore"

\* A simulation step has run the passes on a catalogue of several bodies with
\* an observer that is not the first body
C13_Witness ==
    /\ ComputedWithObserver /\ flagLightTravelTime
    /\ Len(systemPlanets) >= 2
    /\ passes[Len(systemPlanets) + 1].body # systemPlanets[1]
    /\ passes[2 * Len(systemPlanets) + 3].t = "JDE-|pos-obsPosJDE|/c"

\* The calls of computeTransMatrix among the passes
TransMatrixCallsIn(calls) == {j \in DOMAIN calls : calls[j].fn = "computeTransMatrix"}

\* Every body of the catalogue is handed the two times once
TransMatrixTimes(t, tJDE) ==
    /\ \A j \in TransMatrixCallsIn(passes) : passes[j].t = t /\ passes[j].tJDE = tJDE
    /\ \A p \in Range(systemPlanets) :
          \E j \in TransMatrixCallsIn(passes) : passes[j].body = p

\* computeTransMatrices has run on the catalogue
TransformsComputed == Computed /\ last.result = "ok"

\* C27 as stated: the rotation time handed to a body is the delta-T corrected
\* JD when the light-time correction is on and the uncorrected JDE when it is
\* off, and with the correction off no light delay is taken off either time.
C27_AsStated ==
    TransformsComputed =>
        IF flagLightTravelTime
        THEN \A j \in TransMatrixCallsIn(passes) :
                passes[j].t = "JD-|pos-observerPos|/c"
        ELSE TransMatrixTimes("JDE", "JDE")

\* C27, amended: the rotation time handed to a body is the delta-T corrected JD
\* whatever the flag is, together with the JDE; with the light-time correction
\* on the light delay of the body is taken off both, with it off off neither.
C27_CorrectedInBothModes ==
    TransformsComputed =>
        IF flagLightTravelTime
        THEN TransMatrixTimes("JD-|pos-observerPos|/c", "JDE-|pos-observerPos|/c")
        ELSE TransMatrixTimes("JD", "JDE")

\* The transforms of a catalogue of several bodies have been computed with the
\* light-time correction off
C27_Witness ==
    /\ TransformsComputed /\ ~flagLightTravelTime
    /\ Len(systemPlanets) >= 2
    /\ Cardinality(TransMatrixCallsIn(passes)) = Len(systemPlanets)

-----------------------------------------------------------------------------
(* Claims on getEclipseFactor *)

\* getEclipseFactor was called
EclipseCalled == last.op = "getEclipseFactor"

\* getEclipseFactor has returned a value
EclipseReturned == EclipseCalled /\ last.result # "crash"

Contributions == {eclipse.contributions[j] : j \in DOMAIN eclipse.contributions}

\* C14: every call of getEclipseFactor returns, and returns an illumination
\* between 0.0 and 1.0, whatever the catalogue and the geometry are
C14_ResultInUnitInterval ==
    EclipseCalled => /\ last.result # "crash"
                     /\ eclipse.result \in 0..One

\* The regime the four tests select when made in the order far, umbra,
\* penumbra, lens
RegimeInOrder(R, r, d) ==
    CASE d >= R + r -> "far"
      [] d < R + r /\ d <= r - R -> "umbra"
      [] d < R + r /\ d > r - R /\ d <= R - r -> "penumbra"
      [] OTHER -> "lens"

\* C15: the contribution of every body is 1.0 when d >= R + r, else 0.0 when
\* d <= r - R, else 1 - r^2/R^2 when d <= R - r, and the value of the lens
\* formula otherwise
C15_RegimeOrder ==
    EclipseReturned =>
        \A c \in Contributions :
            /\ c.regime = RegimeInOrder(eclipse.R, c.r, c.d)
            /\ c.regime = "far" => c.illumination = One
            /\ c.regime = "umbra" => c.illumination = 0
            /\ c.regime = "penumbra" =>
                   c.illumination * eclipse.R * eclipse.R
                       = One * (eclipse.R * eclipse.R - c.r * c.r)
            /\ c.regime = "lens" => c.illumination \in LensValues

\* A call where the second and the third test both hold for one body, which
\* covers the source exactly, and a second body falls to the lens formula
C15_Witness ==
    /\ EclipseReturned
    /\ \E c1, c2 \in Contributions :
          /\ c1.d <= c1.r - eclipse.R /\ c1.d <= eclipse.R - c1.r /\ c1.r > 0
          /\ c1.illumination = 0
          /\ c2.regime = "lens"

\* C16: the value returned is the least of the contributions of the bodies of
\* the catalogue other than the Sun and the observer's body, and 1.0 when
\* there is no such body
C16_MinimumOfContributions ==
    EclipseReturned =>
        /\ {c.planet : c \in Contributions}
               = Range(systemPlanets) \ {sun, eclipse.current}
        /\ IF Contributions = {} THEN eclipse.result = One
           ELSE /\ \E c \in Contributions : eclipse.result = c.illumination
                /\ \A c \in Contributions :
                       c.illumination # NaN /\ eclipse.result <= c.illumination

\* C17: a body of angular radius 0 contributes 1.0 whatever d and R are, and a
\* body of the angular radius of the source, not 0, at separation 0
\* contributes 0.0
C17_Boundaries ==
    EclipseReturned =>
        \A c \in Contributions :
            /\ c.r = 0 => c.illumination = One
            /\ (c.r = eclipse.R /\ eclipse.R > 0 /\ c.d = 0) => c.illumination = 0

\* A call with a body of radius 0 inside the disc of the source and a body
\* that covers the source exactly
C17_Witness ==
    /\ EclipseReturned
    /\ \E c1, c2 \in Contributions :
          /\ c1.r = 0 /\ c1.d < eclipse.R
          /\ c2.r = eclipse.R /\ c2.d = 0 /\ eclipse.R > 0

-----------------------------------------------------------------------------
(* Claims on reloadPlanets and on what is kept over it *)

\* reloadPlanets() has torn the old catalogue down and is about to call
\* loadPlanets(), line 2199
TornDown == pc = "loadPlanets" /\ last.op = "reloadPlanets"

Aliases == {sun, earth, moon} \ {NULL}

\* C18: when reloadPlanets() calls loadPlanets() the child list of every old
\* body is cleared and the list, the aliases and the selection are empty; the
\* list and the aliases never hold bodies of two loads together
C18_TeardownOrder ==
    /\ TornDown =>
          /\ \A p \in DOMAIN heap : heap[p].satellites = <<>>
          /\ systemPlanets = <<>>
          /\ Aliases = {}
          /\ selected = NULL
    /\ \A p, q \in Range(systemPlanets) \cup Aliases : heap[p].load = heap[q].load

\* The bodies held as the selection, by the module and by the object manager
Selection == {selected, objMgrSelected} \ {NULL}

\* C19: between two operations no body of the catalogue and no selected body
\* references an Orbit that was deleted
C19_OrbitOutlivesBody ==
    pc = "idle" =>
        \A p \in Range(systemPlanets) \cup Selection :
            heap[p].orbitPtr \notin deletedOrbits

\* reloadPlanets() has completed
Reloaded == pc = "idle" /\ last.op = "reloadPlanets"

\* C20: when reloadPlanets() has completed, the selection of the module and
\* the selection of the object manager are empty or bodies the reload has
\* put in the catalogue
C20_NoBodyKeptOverReload ==
    Reloaded =>
        \A p \in Selection : p \in Range(systemPlanets) /\ heap[p].load = loadNo

-----------------------------------------------------------------------------
(* Claims on the names, the section order and the links of the catalogue *)

\* C21: when loadPlanets() has returned, no two bodies of the catalogue have
\* the same english name
C21_UniqueNames ==
    LoadReturned =>
        \A i, j \in DOMAIN systemPlanets :
            heap[systemPlanets[i]].englishName = heap[systemPlanets[j]].englishName
                => i = j

\* The sections stage 2a enters in the map, in the order of the enumeration:
\* the section secNameMap gives for the name of each section
Entered(file) == [i \in DOMAIN file |-> SecNameMap(file)[file[i].name]]

\* The enumeration indices in the order the list has them: by ascending
\* depth and, at equal depth, earlier first (later first when reversed)
DepthOrder(file, reversed) ==
    CHOOSE o \in [DOMAIN file -> DOMAIN file] :
        /\ \A i \in DOMAIN file : \E j \in DOMAIN file : o[j] = i
        /\ \A j, k \in DOMAIN file :
              j < k =>
                 \/ Level(file, file[o[j]].name) < Level(file, file[o[k]].name)
                 \/ /\ Level(file, file[o[j]].name) = Level(file, file[o[k]].name)
                    /\ IF reversed THEN o[j] > o[k] ELSE o[j] < o[k]

SortedByDepth(file, ordered, reversed) ==
    /\ Len(ordered) = Len(file)
    /\ \A j \in DOMAIN ordered : ordered[j] = Entered(file)[DepthOrder(file, reversed)[j]]

\* C23 as stated: the section order is sorted by ascending depth, sections of
\* equal depth in the order of their enumeration
C23_AsStated ==
    OrderBuilt => SortedByDepth(primary.records, ld.ordered, FALSE)

\* C23, amended: the section order is sorted by ascending depth, sections of
\* equal depth in the reverse of the order of their enumeration
C23_TiesInReverseOrder ==
    OrderBuilt => SortedByDepth(primary.records, ld.ordered, TRUE)

\* Two sections of different names and equal depth were ordered, the later
\* one first
C23_Witness ==
    /\ OrderBuilt
    /\ Len(primary.records) = 2
    /\ primary.records[1].name # primary.records[2].name
    /\ Level(primary.records, primary.records[1].name)
           = Level(primary.records, primary.records[2].name)
    /\ ld.ordered = <<primary.records[2].sec, primary.records[1].sec>>

\* C24: the walk along the parents of stage 2a comes to an end for every set
\* of records, also when a record names itself as parent, when a record named
\* Sun has no parent key and when the parents form a cycle
C24_DepthWalkTerminates == pc # "hung"

\* C25: between two operations every body in the child list of a body of the
\* catalogue is in the catalogue and has that body as parent, and the parent
\* of every body of the catalogue is in the catalogue and has the body in its
\* child list
C25_LinksConsistent ==
    pc = "idle" =>
        \A p \in Range(systemPlanets) :
            /\ \A c \in Range(heap[p].satellites) :
                  c \in Range(systemPlanets) /\ heap[c].parent = p
            /\ heap[p].parent # NULL =>
                  /\ heap[p].parent \in Range(systemPlanets)
                  /\ p \in Range(heap[heap[p].parent].satellites)

\* C29: between two operations each of the aliases sun, earth and moon is
\* unset or a body of the catalogue
C29_AliasesInCatalogue ==
    pc = "idle" => Aliases \subseteq Range(systemPlanets)

\* The types C26 lists for a minor body
ClaimedMinorTypes ==
    {"asteroid", "dwarf planet", "cubewano", "plutino", "scattered disc object",
     "Oort cloud object"}

\* The category C26 gives a type, the bodies named after Pluto set apart or not
ClaimedClass(type, englishName, plutoApart) ==
    IF type \in ClaimedMinorTypes /\ ~(plutoApart /\ ContainsPluto(englishName))
    THEN "MinorPlanet"
    ELSE IF type = "comet" THEN "Comet"
    ELSE "Planet"

\* The bodies the running load has built as minor body or comet
BuiltMinor ==
    {p \in DOMAIN heap : heap[p].load = loadNo /\ heap[p].class \in {"MinorPlanet", "Comet"}}

\* The categories are the claimed ones and the minor-body name list holds the
\* names of the bodies built as minor body or comet
Categories(plutoApart) ==
    /\ \A p \in DOMAIN heap :
          heap[p].class = ClaimedClass(heap[p].type, heap[p].englishName, plutoApart)
    /\ LoadReturned =>
          Range(minorBodies) = {heap[p].englishName : p \in BuiltMinor}

\* C26 as stated: the category of a body is selected by its type alone
C26_AsStated == Categories(FALSE)

\* C26, amended: a type of the minor-body list gives a minor body unless the
\* name contains Pluto, which gives an ordinary body; comet gives a comet and
\* every other type an ordinary body
C26_CategoryByTypeAndName == Categories(TRUE)

\* A load has built Pluto, of type dwarf planet, as an ordinary body and other
\* bodies as minor bodies
C26_Witness ==
    /\ LoadReturned
    /\ \E p \in DOMAIN heap :
          /\ heap[p].englishName = "Pluto"
          /\ heap[p].type = "dwarf planet"
          /\ heap[p].class = "Planet"
    /\ BuiltMinor # {}

-----------------------------------------------------------------------------
(* Claims on the settings kept over a reload *)

\* C28: between two operations the Moon of the catalogue has the sphere scale
\* moonScale when flagMoonScale is set and 1 when it is not, whatever calls
\* of setFlagMoonScale, setMoonScale and reloadPlanets were made
C28_MoonScaleReachesMoon ==
    (pc = "idle" /\ moon # NULL) =>
        ScaleOf(moon) = IF flagMoonScale THEN moonScale ELSE 1

-----------------------------------------------------------------------------
(* Claims on the rotation elements *)

\* The section gives both keys of the pole
PoleSupplied ==
    /\ rotation.done
    /\ rotation.keys.rot_pole_ra # Unset
    /\ rotation.keys.rot_pole_de # Unset

\* The section gives no key of the pole
NoPoleSupplied ==
    /\ rotation.done
    /\ rotation.keys.rot_pole_ra = Unset
    /\ rotation.keys.rot_pole_de = Unset

\* C22: when the section supplies rot_pole_ra and rot_pole_de, the obliquity
\* and the ascending node handed to setRotationElements are derived from the
\* pole; rot_obliquity and rot_equator_ascending_node are used only when no
\* pole is supplied
C22_PoleTakesPrecedence ==
    /\ PoleSupplied =>
          /\ rotation.rotObliquity.from = "pole"
          /\ rotation.rotAscNode.from = "pole"
    /\ (rotation.done /\ rotation.rotObliquity.from # "pole") => NoPoleSupplied

-----------------------------------------------------------------------------
(* Claims on the queries by name *)

\* C30: searchByEnglishName returns the body of the name or the empty handle,
\* and none of the six queries by name calls through the empty handle when no
\* body has the name.
C30_QueriesSafe ==
    /\ last.op = "searchByEnglishName" =>
          (last.result = "found") = (last.name \in NameSet(heap, systemPlanets))
    /\ last.op \in PlanetQueries => last.result = "ok"

====
